---- MODULE Spec2Model ----
(***************************************************************************)
(* Model of driver_521.py: the firmware lifecycle loop (main), the key     *)
(* provisioner (check_psk, write_psk), the update engine (write_firmware,  *)
(* update_firmware), and the session bootstrap (run_driver, setup_device,  *)
(* connect_device, get_image).  The program is one thread of control; pc   *)
(* is its position.  Every call to the device, the session engine or the   *)
(* file system is one step whose result (return value or exception) is     *)
(* chosen nondeterministically.                                            *)
(***************************************************************************)
EXTENDS Integers, Sequences, FiniteSets, TLC

(* ------------------------------ bounds --------------------------------- *)
\* largest number of firmware_version polls explored
MaxPolls == 3
\* images explored have up to MaxBlocks full chunks plus a partial one
MaxBlocks == 1
\* DeviceSession objects told apart when the run is not cut at MaxPolls
MaxDevices == 2

(* ------------------------- program constants --------------------------- *)
ChunkSize == 256
\* the default of the parameter tries of write_firmware (line 111 passes its
\* 2 as the parameter number, so the default applies)
WriteTries == 2
UpdateTries == 2
FrameBytes == 7684
TrailerBytes == 4
\* the addresses 0xbb020001 and 0xbb010003, as hexadecimal text
PskFlags == "bb020001"
PskWriteFlags == "bb010003"
CodeMax == 1

\* a firmware string is a stem followed by trailing characters
APP_STEM == "GFUSB_GM168SEC_APP_100"
IAP_STEM == "MILAN_GM168SEC_IAP_100"
Str(stem, tail) == [stem |-> stem, tail |-> tail]
Digits == {"0", "1", "2", "3", "4", "5", "6", "7", "8", "9"}

TARGET_FIRMWARE == Str(APP_STEM, <<"1", "9">>)
IAP_FIRMWARE == Str(IAP_STEM, <<"0", "7">>)
\* VALID_FIRMWARE is the pattern APP_STEM [0-9]{2}
MatchValid(s) ==
    /\ s.stem = APP_STEM
    /\ Len(s.tail) = 2
    /\ \A i \in 1..Len(s.tail) : s.tail[i] \in Digits
\* fullmatch of a pattern without metacharacters is string equality
MatchTarget(s) == s = TARGET_FIRMWARE
MatchIap(s) == s = IAP_FIRMWARE

\* previous_firmware = None
None == Str("<None>", <<>>)

\* the firmware strings the device is made to report
FirmwareStrings ==
    { TARGET_FIRMWARE,
      Str(APP_STEM, <<"1", "8">>),
      Str(APP_STEM, <<"1">>),
      Str(APP_STEM, <<"1", "x">>),
      IAP_FIRMWARE,
      Str(IAP_STEM, <<"0", "8">>) }

\* commitment values the device is made to report
PMK_HASH == "66687aad"
\* replies of preset_psk_read: (success, echoed flags, commitment)
PskReplies ==
    { <<TRUE, PskFlags, PMK_HASH>>, <<TRUE, PskFlags, "00000000">>,
      <<FALSE, PskFlags, PMK_HASH>>, <<TRUE, PskWriteFlags, PMK_HASH>> }

\* lengths of the image file read by update_firmware
ImageLens == { b * ChunkSize + r : b \in 0..MaxBlocks, r \in {0, 1} }
ImageIds == {"A", "B"}

Min(a, b) == IF a < b THEN a ELSE b

VARIABLES
    pc,                \* position of the thread of control
    device,            \* id of the Device instance bound to `device` (0: none)
    previous_firmware, \* main's previous_firmware
    firmware,          \* main's firmware
    valid_psk,         \* main's valid_psk
    polls,             \* number of firmware_version polls so far
    prev_poll,         \* the string the poll before the latest one returned
    calls,             \* calls issued since (and including) the latest poll
    error,             \* the exception in flight or raised ("none": no error)
    attempt,           \* update_firmware: index of the outer loop
    image,             \* update_firmware: the image read in this attempt
    firmware_hmac,     \* update_firmware: the tag derived in this attempt
    offset,            \* update_firmware: i of the chunk loop
    wtry,              \* write_firmware: index of the retry loop
    tls_server,        \* run_driver: state of the session-engine process
    tls_client,        \* run_driver: state of the loopback socket object
    step               \* connect_device / get_image: index of the next step

vars == <<pc, device, previous_firmware, firmware, valid_psk, polls,
          prev_poll, calls,
          error, attempt, image, firmware_hmac, offset, wtry, tls_server,
          tls_client, step>>

mainVars == <<previous_firmware, firmware, valid_psk>>
updVars == <<attempt, image, firmware_hmac, offset, wtry>>
runVars == <<tls_server, tls_client, step>>

NoImage == [id |-> "", len |-> 0]

\* one logged call
Ev(who, op, arg, flag, x, y, tag) ==
    [who |-> who, op |-> op, dev |-> device, arg |-> arg, flag |-> flag,
     x |-> x, y |-> y, tag |-> tag, res |-> ""]
Dev(op) == Ev("device", op, "", FALSE, 0, 0, "")
\* the call e is issued and ends with result res: "ok" (returned, truthy),
\* "false" (returned falsy), "raise" (exception), "pending" (not returned)
Log(e, res) == calls' = Append(calls, [e EXCEPT !.res = res])

Init ==
    /\ pc = "prompt"
    /\ device = 0
    /\ previous_firmware = None
    /\ firmware = None
    /\ valid_psk = FALSE
    /\ polls = 0
    /\ prev_poll = None
    /\ calls = <<>>
    /\ error = "none"
    /\ attempt = 0
    /\ image = NoImage
    /\ firmware_hmac = ""
    /\ offset = 0
    /\ wtry = 0
    /\ tls_server = "none"
    /\ tls_client = "none"
    /\ step = 0

\* an exception leaves main: the process ends
Raise(e) == pc' = "done" /\ error' = e

(* ------------------------------- main ---------------------------------- *)
\* lines 329-332: the confirmation prompt
Prompt ==
    /\ pc = "prompt"
    /\ \E code \in 0..CodeMax, typed \in 0..CodeMax :
         pc' = IF typed = code THEN "bind" ELSE "done"
    /\ UNCHANGED <<device, mainVars, polls, prev_poll, calls, error, updVars,
                   runVars>>

\* lines 336 and 371: device = Device(product, USBProtocol)
BindMutC19 ==
    /\ pc \in {"bind", "rebind"}
    /\ \/ /\ device' = IF pc = "bind" THEN device + 1 ELSE device
          /\ pc' = IF pc = "bind" THEN "nop" ELSE "renop"
          /\ error' = error
       \/ /\ Raise("IOError")
          /\ device' = device
    /\ UNCHANGED <<mainVars, polls, prev_poll, calls, updVars, runVars>>
Bind ==
    /\ pc \in {"bind", "rebind"}
    /\ \/ /\ device' = device + 1
          /\ pc' = IF pc = "bind" THEN "nop" ELSE "renop"
          /\ error' = error
       \/ /\ Raise("IOError")
          /\ device' = device
    /\ UNCHANGED <<mainVars, polls, prev_poll, calls, updVars, runVars>>

\* lines 338 and 373: device.nop()
Nop ==
    /\ pc \in {"nop", "renop"}
    /\ \/ Log(Dev("nop"), "ok") /\ pc' = "poll" /\ error' = error
       \/ Log(Dev("nop"), "raise") /\ Raise("IOError")
    /\ UNCHANGED <<device, mainVars, polls, prev_poll, updVars, runVars>>

\* line 341: firmware = device.firmware_version()
Poll ==
    /\ pc = "poll"
    /\ polls < MaxPolls
    /\ polls' = polls + 1
    /\ \/ \E f \in FirmwareStrings :
            /\ firmware' = f
            /\ prev_poll' = firmware
            /\ calls' = <<[Dev("firmware_version") EXCEPT !.res = "ok"]>>
            /\ pc' = "check"
            /\ error' = error
       \/ /\ calls' = <<[Dev("firmware_version") EXCEPT !.res = "raise"]>>
          /\ Raise("IOError")
          /\ UNCHANGED <<firmware, prev_poll>>
    /\ UNCHANGED <<device, previous_firmware, valid_psk, updVars, runVars>>

\* lines 54-62: check_psk, given the reply of preset_psk_read
CheckPskError(reply) ==
    IF ~reply[1] THEN "Failed to read PSK"
    ELSE IF reply[2] # PskFlags THEN "Invalid flags"
    ELSE "none"
CheckPskResult(reply) == reply[3] = PMK_HASH
\* how the call of line 55 is logged: the reply is usable or not
PskRes(reply) ==
    IF CheckPskError(reply) # "none" THEN "false"
    ELSE IF CheckPskResult(reply) THEN "ok" ELSE "mismatch"
PskRead == Ev("device", "preset_psk_read", PskFlags, FALSE, 0, 0, "")

\* line 344: valid_psk = check_psk(device)
CheckPsk ==
    /\ pc = "check"
    /\ \/ \E reply \in PskReplies :
            /\ Log(PskRead, PskRes(reply))
            /\ IF CheckPskError(reply) # "none"
               THEN Raise(CheckPskError(reply)) /\ valid_psk' = valid_psk
               ELSE /\ valid_psk' = CheckPskResult(reply)
                    /\ pc' = "route"
                    /\ error' = error
       \/ /\ Log(PskRead, "raise")
          /\ Raise("IOError")
          /\ valid_psk' = valid_psk
    /\ UNCHANGED <<device, previous_firmware, firmware, polls, prev_poll,
                   updVars, runVars>>

\* lines 347-380: where the iteration goes after the poll and the key check
RouteMutC1(fw, prev, valid) ==
    IF fw = prev THEN "Unchanged firmware"
    ELSE IF MatchTarget(fw) THEN "popen"
    ELSE IF MatchValid(fw) THEN "erase"
    ELSE IF MatchIap(fw) THEN (IF ~valid THEN "write_psk" ELSE "upd_open")
    ELSE "Invalid firmware"
RouteMutC2(fw, prev, valid) ==
    IF MatchTarget(fw) THEN (IF ~valid THEN "erase" ELSE "popen")
    ELSE IF MatchValid(fw) THEN "erase"
    ELSE IF MatchIap(fw) THEN (IF ~valid THEN "write_psk" ELSE "upd_open")
    ELSE "Invalid firmware"
RouteMutC3(fw, prev, valid) ==
    IF fw = prev THEN "Unchanged firmware"
    ELSE IF MatchTarget(fw) THEN (IF ~valid THEN "erase" ELSE "popen")
    ELSE IF MatchValid(fw) THEN "erase"
    ELSE IF MatchIap(fw) THEN "write_psk"
    ELSE "Invalid firmware"
RouteMutC4(fw, prev, valid) ==
    IF fw = prev THEN "Unchanged firmware"
    ELSE IF MatchTarget(fw) THEN (IF ~valid THEN "erase" ELSE "popen")
    ELSE IF MatchValid(fw) THEN "erase"
    ELSE IF MatchIap(fw) THEN "upd_open"
    ELSE "Invalid firmware"
RouteMutC5(fw, prev, valid) ==
    IF fw = prev THEN "Unchanged firmware"
    ELSE IF MatchTarget(fw) THEN (IF ~valid THEN "erase" ELSE "popen")
    ELSE IF MatchValid(fw) THEN "erase"
    ELSE IF MatchIap(fw) THEN (IF ~valid THEN "write_psk" ELSE "upd_open")
    ELSE "erase"
RouteMutC6(fw, prev, valid) ==
    IF fw = prev THEN "Unchanged firmware"
    ELSE IF MatchValid(fw) THEN "erase"
    ELSE IF MatchTarget(fw) THEN (IF ~valid THEN "erase" ELSE "popen")
    ELSE IF MatchIap(fw) THEN (IF ~valid THEN "write_psk" ELSE "upd_open")
    ELSE "Invalid firmware"
Route(fw, prev, valid) ==
    IF fw = prev THEN "Unchanged firmware"
    ELSE IF MatchTarget(fw) THEN (IF ~valid THEN "erase" ELSE "popen")
    ELSE IF MatchValid(fw) THEN "erase"
    ELSE IF MatchIap(fw) THEN (IF ~valid THEN "write_psk" ELSE "upd_open")
    ELSE "Invalid firmware"

RouteErrors == {"Unchanged firmware", "Invalid firmware"}

\* lines 347-380 as a step: the stall guard, then the classification
Classify ==
    /\ pc = "route"
    /\ LET r == Route(firmware, previous_firmware, valid_psk) IN
         /\ IF r \in RouteErrors THEN Raise(r) ELSE pc' = r /\ error' = error
         /\ previous_firmware' =
              IF r = "Unchanged firmware" THEN previous_firmware ELSE firmware
    /\ UNCHANGED <<device, firmware, valid_psk, polls, prev_poll, calls,
                   updVars, runVars>>

\* lines 76-77 called from lines 354 and 361: erase_firmware(device); continue
MainErase == Ev("device", "mcu_erase_app", "main", TRUE, 50, 0, "")
EraseMain ==
    /\ pc = "erase"
    /\ \/ Log(MainErase, "ok") /\ pc' = "poll" /\ error' = error
       \/ Log(MainErase, "raise") /\ Raise("IOError")
    /\ UNCHANGED <<device, mainVars, polls, prev_poll, updVars, runVars>>

(* -------------------------- key provisioner ---------------------------- *)
PskWrite == Ev("device", "preset_psk_write", PskWriteFlags, FALSE, 114, 0, "")

\* lines 66-68 called from line 366: device.preset_psk_write(...)
WritePskMutC11 ==
    /\ pc = "write_psk"
    /\ \/ Log(PskWrite, "ok") /\ pc' = "write_psk_check" /\ error' = error
       \/ Log(PskWrite, "false") /\ pc' = "write_psk_check" /\ error' = error
       \/ Log(PskWrite, "raise") /\ Raise("IOError")
    /\ UNCHANGED <<device, mainVars, polls, prev_poll, updVars, runVars>>
WritePsk ==
    /\ pc = "write_psk"
    /\ \/ Log(PskWrite, "ok") /\ pc' = "write_psk_check" /\ error' = error
       \/ Log(PskWrite, "false") /\ Raise("Failed to write PSK")
       \/ Log(PskWrite, "raise") /\ Raise("IOError")
    /\ UNCHANGED <<device, mainVars, polls, prev_poll, updVars, runVars>>

\* lines 70-73: the readback of write_psk, and line 367
WritePskCheck ==
    /\ pc = "write_psk_check"
    /\ \/ \E reply \in PskReplies :
            /\ Log(PskRead, PskRes(reply))
            /\ IF CheckPskError(reply) # "none"
               THEN Raise(CheckPskError(reply))
               ELSE IF CheckPskResult(reply)
                    THEN pc' = "upd_open" /\ error' = error
                    ELSE Raise("Failed to write PSK")
       \/ Log(PskRead, "raise") /\ Raise("IOError")
    /\ UNCHANGED <<device, mainVars, polls, prev_poll, updVars, runVars>>

(* --------------------------- update engine ----------------------------- *)
Images == [id : ImageIds, len : ImageLens]

\* lines 101-107: the keyed hash, kept symbolic: the text names the key and
\* the whole message, so different inputs give different tags
Hmac(key, msg) == "hmac(" \o key \o "," \o msg \o ")"
PSK == "psk0"
\* lines 101-106: pmk_hmac depends on PSK only
PmkHmac == Hmac("sha256(" \o PSK \o ")", "mod")
\* line 107: firmware_hmac = hmac(pmk_hmac, firmware, sha256).digest()
FirmwareHmac(img) == Hmac(PmkHmac, img.id \o ":" \o ToString(img.len))

\* line 111: firmware[i:i + 256]
Payload(img, i) == Min(ChunkSize, img.len - i)

\* the exception handler of lines 121-128 is entered with the error in flight
Catch(e) == pc' = "upd_rollback" /\ error' = e

\* lines 96-99 and the head of the loop of line 110: read the image file
UpdOpenMutC20 ==
    /\ pc = "upd_open"
    /\ attempt < UpdateTries
    /\ \/ \E img \in Images :
            /\ image' = img
            /\ firmware_hmac' =
                 IF attempt = 0 THEN FirmwareHmac(img) ELSE firmware_hmac
            /\ Log(Ev("file", "read", img.id, FALSE, 0, img.len, ""), "ok")
            /\ pc' = IF 0 < img.len THEN "upd_chunk" ELSE "upd_verify"
            /\ error' = error
       \/ /\ Catch("IOError")
          /\ Log(Ev("file", "read", "", FALSE, 0, 0, ""), "raise")
          /\ UNCHANGED <<image, firmware_hmac>>
    /\ offset' = 0
    /\ wtry' = 0
    /\ UNCHANGED <<device, mainVars, polls, prev_poll, attempt, runVars>>
UpdOpen ==
    /\ pc = "upd_open"
    /\ attempt < UpdateTries
    /\ \/ \E img \in Images :
            /\ image' = img
            /\ firmware_hmac' = FirmwareHmac(img)
            /\ Log(Ev("file", "read", img.id, FALSE, 0, img.len, ""), "ok")
            /\ pc' = IF 0 < img.len THEN "upd_chunk" ELSE "upd_verify"
            /\ error' = error
       \/ /\ Catch("IOError")
          /\ Log(Ev("file", "read", "", FALSE, 0, 0, ""), "raise")
          /\ UNCHANGED <<image, firmware_hmac>>
    /\ offset' = 0
    /\ wtry' = 0
    /\ UNCHANGED <<device, mainVars, polls, prev_poll, attempt, runVars>>

\* the call of line 86 for the chunk at offset i: the bytes are those of the
\* image img, from i on
ChunkWrite(img, i) ==
    Ev("device", "write_firmware", img.id, FALSE, i, Payload(img, i), "")

\* lines 85-89 called from line 111: one device.write_firmware of the chunk
UpdChunkMutC8 ==
    /\ pc = "upd_chunk"
    /\ \/ /\ Log(ChunkWrite(image, offset), "ok")
          /\ offset' = offset + ChunkSize + 1
          /\ wtry' = 0
          /\ pc' = IF offset + ChunkSize + 1 < image.len
                   THEN "upd_chunk" ELSE "upd_verify"
          /\ error' = error
       \/ /\ Log(ChunkWrite(image, offset), "false")
          /\ wtry + 1 < WriteTries
          /\ wtry' = wtry + 1
          /\ offset' = offset
          /\ pc' = pc /\ error' = error
       \/ /\ Log(ChunkWrite(image, offset), "false")
          /\ wtry + 1 >= WriteTries
          /\ Catch("Failed to write firmware")
          /\ UNCHANGED <<offset, wtry>>
       \/ /\ Log(ChunkWrite(image, offset), "raise")
          /\ Catch("IOError")
          /\ UNCHANGED <<offset, wtry>>
    /\ UNCHANGED <<device, mainVars, polls, prev_poll, attempt, image,
                   firmware_hmac, runVars>>
UpdChunkMutC12 ==
    /\ pc = "upd_chunk"
    /\ \/ /\ Log(ChunkWrite(image, offset), "ok")
          /\ offset' = offset + ChunkSize
          /\ wtry' = 0
          /\ pc' = IF offset + ChunkSize < image.len
                   THEN "upd_chunk" ELSE "upd_verify"
          /\ error' = error
       \/ /\ Log(ChunkWrite(image, offset), "false")
          /\ wtry + 1 < WriteTries + 1
          /\ wtry' = wtry + 1
          /\ offset' = offset
          /\ pc' = pc /\ error' = error
       \/ /\ Log(ChunkWrite(image, offset), "false")
          /\ wtry + 1 >= WriteTries + 1
          /\ Catch("Failed to write firmware")
          /\ UNCHANGED <<offset, wtry>>
       \/ /\ Log(ChunkWrite(image, offset), "raise")
          /\ Catch("IOError")
          /\ UNCHANGED <<offset, wtry>>
    /\ UNCHANGED <<device, mainVars, polls, prev_poll, attempt, image,
                   firmware_hmac, runVars>>
UpdChunk ==
    /\ pc = "upd_chunk"
    /\ \/ /\ Log(ChunkWrite(image, offset), "ok")
          /\ offset' = offset + ChunkSize
          /\ wtry' = 0
          /\ pc' = IF offset + ChunkSize < image.len
                   THEN "upd_chunk" ELSE "upd_verify"
          /\ error' = error
       \/ /\ Log(ChunkWrite(image, offset), "false")
          /\ wtry + 1 < WriteTries
          /\ wtry' = wtry + 1
          /\ offset' = offset
          /\ pc' = pc /\ error' = error
       \/ /\ Log(ChunkWrite(image, offset), "false")
          /\ wtry + 1 >= WriteTries
          /\ Catch("Failed to write firmware")
          /\ UNCHANGED <<offset, wtry>>
       \/ /\ Log(ChunkWrite(image, offset), "raise")
          /\ Catch("IOError")
          /\ UNCHANGED <<offset, wtry>>
    /\ UNCHANGED <<device, mainVars, polls, prev_poll, attempt, image,
                   firmware_hmac, runVars>>

\* the call of line 113
Verify(tag) == Ev("device", "check_firmware", tag, FALSE, 0, 0, "")

\* line 113, and lines 96 and 119 when the device rejects the tag
UpdVerifyMutC13 ==
    /\ pc = "upd_verify"
    /\ \/ /\ Log(Verify(firmware_hmac), "ok")
          /\ pc' = "upd_reset"
          /\ UNCHANGED <<attempt, error>>
       \/ /\ Log(Verify(firmware_hmac), "false")
          /\ attempt + 1 < UpdateTries + 1
          /\ attempt' = IF attempt + 1 < UpdateTries THEN attempt + 1 ELSE attempt
          /\ pc' = "upd_open" /\ error' = error
       \/ /\ Log(Verify(firmware_hmac), "raise")
          /\ Catch("IOError")
          /\ attempt' = attempt
    /\ UNCHANGED <<device, mainVars, polls, prev_poll, image, firmware_hmac,
                   offset, wtry, runVars>>
UpdVerify ==
    /\ pc = "upd_verify"
    /\ \/ /\ Log(Verify(firmware_hmac), "ok")
          /\ pc' = "upd_reset"
          /\ UNCHANGED <<attempt, error>>
       \/ /\ Log(Verify(firmware_hmac), "false")
          /\ attempt + 1 < UpdateTries
          /\ attempt' = attempt + 1
          /\ pc' = "upd_open" /\ error' = error
       \/ /\ Log(Verify(firmware_hmac), "false")
          /\ attempt + 1 >= UpdateTries
          /\ Catch("Failed to check firmware")
          /\ attempt' = attempt + 1
       \/ /\ Log(Verify(firmware_hmac), "raise")
          /\ Catch("IOError")
          /\ attempt' = attempt
    /\ UNCHANGED <<device, mainVars, polls, prev_poll, image, firmware_hmac,
                   offset, wtry, runVars>>

\* line 114: device.reset(False, True, 50)
UpdateReset == Ev("device", "reset", "update", TRUE, 50, 0, "")
UpdReset ==
    /\ pc = "upd_reset"
    /\ \/ Log(UpdateReset, "ok") /\ pc' = "upd_disconnect" /\ error' = error
       \/ Log(UpdateReset, "raise") /\ Catch("IOError")
    /\ UNCHANGED <<device, mainVars, polls, prev_poll, updVars, runVars>>

\* lines 115-117: device.disconnect(); return
UpdDisconnect ==
    /\ pc = "upd_disconnect"
    /\ \/ /\ Log(Dev("disconnect"), "ok")
          /\ pc' = "rebind" /\ error' = error
          /\ attempt' = 0 /\ image' = NoImage /\ firmware_hmac' = ""
          /\ offset' = 0 /\ wtry' = 0
       \/ /\ Log(Dev("disconnect"), "raise")
          /\ Catch("IOError")
          /\ UNCHANGED updVars
    /\ UNCHANGED <<device, mainVars, polls, prev_poll, runVars>>

\* lines 121-128: erase_firmware(device); raise error
RollbackErase == Ev("device", "mcu_erase_app", "rollback", TRUE, 50, 0, "")
UpdRollbackMutC18 ==
    /\ pc = "upd_rollback"
    /\ \/ Log(RollbackErase, "ok") /\ pc' = "rebind" /\ error' = "none"
       \/ Log(RollbackErase, "raise") /\ Raise("IOError")
    /\ attempt' = 0 /\ image' = NoImage /\ firmware_hmac' = ""
    /\ offset' = 0 /\ wtry' = 0
    /\ UNCHANGED <<device, mainVars, polls, prev_poll, runVars>>
UpdRollbackMutC7 ==
    /\ pc = "upd_rollback"
    /\ calls' = calls
    /\ Raise(error)
    /\ attempt' = 0 /\ image' = NoImage /\ firmware_hmac' = ""
    /\ offset' = 0 /\ wtry' = 0
    /\ UNCHANGED <<device, mainVars, polls, prev_poll, runVars>>
UpdRollback ==
    /\ pc = "upd_rollback"
    /\ \/ Log(RollbackErase, "ok") /\ Raise(error)
       \/ Log(RollbackErase, "raise") /\ Raise("IOError")
    /\ attempt' = 0 /\ image' = NoImage /\ firmware_hmac' = ""
    /\ offset' = 0 /\ wtry' = 0
    /\ UNCHANGED <<device, mainVars, polls, prev_poll, runVars>>

(* --------------------------- session bootstrap ------------------------- *)
\* the two framing tags imported at lines 11-12
FLAGS_TLS == "TLS"
FLAGS_TLS_DATA == "TLS_DATA"

\* one statement-level call: the function it is in, the callee, the arguments
\* that tell the calls apart, the framing tag, the source line, and the error
\* raised when the result is falsy ("" when the result is not tested)
S(fn, who, op, arg, flag, x, y, tag, line, fail) ==
    [fn |-> fn, who |-> who, op |-> op, arg |-> arg, flag |-> flag, x |-> x,
     y |-> y, tag |-> tag, line |-> line, fail |-> fail]

\* lines 131-137, then lines 307-308 of run_driver
SetupSteps ==
    <<
      S("setup_device", "device", "reset", "setup", TRUE, 20, 0, "", 132, "Reset failed"),
      S("setup_device", "device", "read_sensor_register", "", FALSE, 0, 4, "", 135, ""),
      S("setup_device", "device", "read_otp", "", FALSE, 0, 0, "", 137, ""),
      S("run_driver", "engine", "socket", "", FALSE, 0, 0, "", 307, ""),
      S("run_driver", "engine", "connect", "", FALSE, 4433, 0, "", 308, "")
    >>

\* lines 142-163
ConnectSteps ==
    <<
      S("connect_device", "device", "request_tls_connection", "", FALSE, 0, 0, "", 143, ""),
      S("connect_device", "engine", "sendall", "", FALSE, 0, 0, "", 143, ""),
      S("connect_device", "engine", "recv", "", FALSE, 1024, 0, "", 146, ""),
      S("connect_device", "device", "protocol.write", "", FALSE, 0, 0, FLAGS_TLS, 145, ""),
      S("connect_device", "device", "protocol.read", "", FALSE, 0, 0, "", 150, ""),
      S("connect_device", "codec", "check_message_pack", "", FALSE, 0, 0, FLAGS_TLS, 150, ""),
      S("connect_device", "engine", "sendall", "", FALSE, 0, 0, "", 149, ""),
      S("connect_device", "device", "protocol.read", "", FALSE, 0, 0, "", 153, ""),
      S("connect_device", "codec", "check_message_pack", "", FALSE, 0, 0, FLAGS_TLS, 153, ""),
      S("connect_device", "engine", "sendall", "", FALSE, 0, 0, "", 152, ""),
      S("connect_device", "device", "protocol.read", "", FALSE, 0, 0, "", 156, ""),
      S("connect_device", "codec", "check_message_pack", "", FALSE, 0, 0, FLAGS_TLS, 156, ""),
      S("connect_device", "engine", "sendall", "", FALSE, 0, 0, "", 155, ""),
      S("connect_device", "engine", "recv", "", FALSE, 1024, 0, "", 160, ""),
      S("connect_device", "device", "protocol.write", "", FALSE, 0, 0, FLAGS_TLS, 159, ""),
      S("connect_device", "host", "sleep", "", FALSE, 0, 0, "", 163, "")
    >>

\* lines 166-284
GetImageSteps ==
    <<
      S("get_image", "device", "upload_config_mcu", "", FALSE, 0, 0, "", 167, "Failed to upload config"),
      S("get_image", "device", "set_drv_state", "", FALSE, 0, 0, "", 170, ""),
      S("get_image", "device", "mcu_get_pov_image", "", FALSE, 0, 0, "", 172, ""),
      S("get_image", "device", "mcu_switch_to_fdt_mode", "0d-00", FALSE, 0, 0, "", 174, ""),
      S("get_image", "device", "mcu_switch_to_fdt_mode", "0d-01", TRUE, 0, 0, "", 177, ""),
      S("get_image", "device", "write_sensor_register", "0a03", FALSE, 556, 0, "", 181, ""),
      S("get_image", "device", "mcu_get_image", "01032701210127012301", FALSE, 0, 0, FLAGS_TLS_DATA, 184, ""),
      S("get_image", "engine", "sendall", "", FALSE, 0, 0, "", 183, ""),
      S("get_image", "engine", "stdout.read", "", FALSE, FrameBytes, TrailerBytes, "", 187, ""),
      S("get_image", "host", "decode_image", "", FALSE, 0, 0, "", 187, ""),
      S("get_image", "file", "write_pgm", "clear-0.pgm", FALSE, 0, 0, "", 187, ""),
      S("get_image", "device", "write_sensor_register", "0a02", FALSE, 556, 0, "", 189, ""),
      S("get_image", "device", "write_sensor_register", "0a03", FALSE, 556, 0, "", 191, ""),
      S("get_image", "device", "mcu_get_image", "81032701210127012301", FALSE, 0, 0, FLAGS_TLS_DATA, 194, ""),
      S("get_image", "engine", "sendall", "", FALSE, 0, 0, "", 193, ""),
      S("get_image", "engine", "stdout.read", "", FALSE, FrameBytes, TrailerBytes, "", 197, ""),
      S("get_image", "host", "decode_image", "", FALSE, 0, 0, "", 197, ""),
      S("get_image", "file", "write_pgm", "clear-1.pgm", FALSE, 0, 0, "", 197, ""),
      S("get_image", "device", "write_sensor_register", "0a02", FALSE, 556, 0, "", 199, ""),
      S("get_image", "device", "write_sensor_register", "0a03", FALSE, 556, 0, "", 201, ""),
      S("get_image", "device", "mcu_get_image", "81031801120118011401", FALSE, 0, 0, FLAGS_TLS_DATA, 204, ""),
      S("get_image", "engine", "sendall", "", FALSE, 0, 0, "", 203, ""),
      S("get_image", "engine", "stdout.read", "", FALSE, FrameBytes, TrailerBytes, "", 207, ""),
      S("get_image", "host", "decode_image", "", FALSE, 0, 0, "", 207, ""),
      S("get_image", "file", "write_pgm", "clear-2.pgm", FALSE, 0, 0, "", 207, ""),
      S("get_image", "device", "write_sensor_register", "0a02", FALSE, 556, 0, "", 209, ""),
      S("get_image", "device", "mcu_switch_to_fdt_mode", "8d-00", FALSE, 0, 0, "", 211, ""),
      S("get_image", "device", "mcu_switch_to_fdt_mode", "8d-01", TRUE, 0, 0, "", 214, ""),
      S("get_image", "device", "write_sensor_register", "0a03", FALSE, 556, 0, "", 218, ""),
      S("get_image", "device", "mcu_get_image", "81032701210127012301", FALSE, 0, 0, FLAGS_TLS_DATA, 221, ""),
      S("get_image", "engine", "sendall", "", FALSE, 0, 0, "", 220, ""),
      S("get_image", "engine", "stdout.read", "", FALSE, FrameBytes, TrailerBytes, "", 224, ""),
      S("get_image", "host", "decode_image", "", FALSE, 0, 0, "", 224, ""),
      S("get_image", "file", "write_pgm", "clear-3.pgm", FALSE, 0, 0, "", 224, ""),
      S("get_image", "device", "write_sensor_register", "0a02", FALSE, 556, 0, "", 226, ""),
      S("get_image", "device", "mcu_switch_to_fdt_mode", "0d-00", FALSE, 0, 0, "", 228, ""),
      S("get_image", "device", "mcu_switch_to_fdt_mode", "0d-01", TRUE, 0, 0, "", 231, ""),
      S("get_image", "device", "set_pov_config", "", FALSE, 0, 0, "", 235, ""),
      S("get_image", "device", "mcu_switch_to_sleep_mode", "", FALSE, 0, 0, "", 237, ""),
      S("get_image", "device", "query_mcu_state", "010101", FALSE, 0, 0, "", 239, ""),
      S("get_image", "device", "mcu_switch_to_fdt_down", "9c-00", FALSE, 0, 0, "", 241, ""),
      S("get_image", "device", "mcu_switch_to_fdt_down", "9c-01", FALSE, 0, 0, "", 246, ""),
      S("get_image", "device", "mcu_switch_to_sleep_mode", "", FALSE, 0, 0, "", 251, ""),
      S("get_image", "device", "query_mcu_state", "000000", FALSE, 0, 0, "", 253, ""),
      S("get_image", "device", "query_mcu_state", "010101", FALSE, 0, 0, "", 255, ""),
      S("get_image", "device", "mcu_switch_to_fdt_down", "9c-00", FALSE, 0, 0, "", 257, ""),
      S("get_image", "device", "mcu_switch_to_fdt_down", "9c-01", TRUE, 0, 0, "", 264, ""),
      S("get_image", "device", "mcu_switch_to_fdt_mode", "0d8d-00", FALSE, 0, 0, "", 269, ""),
      S("get_image", "device", "mcu_switch_to_fdt_mode", "0d8d-01", TRUE, 0, 0, "", 273, ""),
      S("get_image", "device", "write_sensor_register", "0503", FALSE, 556, 0, "", 277, ""),
      S("get_image", "device", "mcu_get_image", "4503a700a100a700a300", FALSE, 0, 0, FLAGS_TLS_DATA, 280, ""),
      S("get_image", "engine", "sendall", "", FALSE, 0, 0, "", 279, ""),
      S("get_image", "engine", "stdout.read", "", FALSE, FrameBytes, TrailerBytes, "", 283, ""),
      S("get_image", "host", "decode_image", "", FALSE, 0, 0, "", 283, ""),
      S("get_image", "file", "write_pgm", "fingerprint.pgm", FALSE, 0, 0, "", 283, "")
    >>

\* lines 305-313: the body of the try blocks of run_driver, in order
RunStepsMutC14 ==
    SetupSteps \o
    [i \in DOMAIN ConnectSteps |->
       IF i = 13 THEN ConnectSteps[14]
       ELSE IF i = 14 THEN ConnectSteps[13]
       ELSE ConnectSteps[i]] \o
    GetImageSteps
RunStepsMutC15 ==
    SetupSteps \o ConnectSteps \o
    [i \in DOMAIN GetImageSteps |->
       IF GetImageSteps[i].line = 199
       THEN [GetImageSteps[i] EXCEPT !.arg = "0a03"]
       ELSE GetImageSteps[i]]
RunStepsMutC16 ==
    SetupSteps \o ConnectSteps \o
    [i \in DOMAIN GetImageSteps |->
       IF GetImageSteps[i].line = 264
       THEN [GetImageSteps[i] EXCEPT !.flag = FALSE]
       ELSE GetImageSteps[i]]
RunStepsMutC10 ==
    SetupSteps \o ConnectSteps \o
    [i \in DOMAIN GetImageSteps |->
       IF GetImageSteps[i].line = 280
       THEN [GetImageSteps[i] EXCEPT !.tag = FLAGS_TLS]
       ELSE GetImageSteps[i]]
RunSteps == SetupSteps \o ConnectSteps \o GetImageSteps

\* the try blocks of lines 304-318: the handler an exception of step s reaches
Handler(s) ==
    IF s.fn \in {"connect_device", "get_image"} THEN "close" ELSE "terminate"

\* line 264 waits for the finger-presence reply of the device
Blocking(s) == s.op = "mcu_switch_to_fdt_down" /\ s.flag

\* lines 297-302: tls_server = Popen([...])
ServerStart == Ev("engine", "Popen", "openssl s_server", FALSE, 4433, 0, "")
StartServer ==
    /\ pc = "popen"
    /\ \/ /\ Log(ServerStart, "ok")
          /\ tls_server' = "running"
          /\ pc' = "run"
          /\ step' = 1
          /\ error' = error
       \/ /\ Log(ServerStart, "raise")
          /\ Raise("IOError")
          /\ UNCHANGED <<tls_server, step>>
    /\ UNCHANGED <<device, mainVars, polls, prev_poll, updVars, tls_client>>

\* lines 305-313: the next call of setup_device, run_driver, connect_device
\* or get_image
RunStep ==
    /\ pc = "run"
    /\ LET s == RunSteps[step]
           e == Ev(s.who, s.op, s.arg, s.flag, s.x, s.y, s.tag)
       IN
         \/ /\ Log(e, IF Blocking(s) THEN "pending" ELSE "ok")
            /\ pc' = IF Blocking(s) THEN "wait"
                     ELSE IF step = Len(RunSteps) THEN "close"
                     ELSE "run"
            /\ step' = IF Blocking(s) THEN step ELSE step + 1
            /\ tls_client' = IF s.op = "socket" THEN "open" ELSE tls_client
            /\ error' = error
         \/ /\ s.fail # ""
            /\ Log(e, "false")
            /\ pc' = Handler(s)
            /\ error' = s.fail
            /\ UNCHANGED <<step, tls_client>>
         \/ /\ ~Blocking(s)
            /\ Log(e, "raise")
            /\ pc' = Handler(s)
            /\ error' = "IOError"
            /\ UNCHANGED <<step, tls_client>>
    /\ UNCHANGED <<device, mainVars, polls, prev_poll, updVars, tls_server>>

\* line 264: the finger-presence request returns, or fails
FingerWait ==
    /\ pc = "wait"
    /\ \/ /\ calls' = [calls EXCEPT ![Len(calls)].res = "ok"]
          /\ pc' = "run"
          /\ step' = step + 1
          /\ error' = error
       \/ /\ calls' = [calls EXCEPT ![Len(calls)].res = "raise"]
          /\ pc' = Handler(RunSteps[step])
          /\ error' = "IOError"
          /\ step' = step
    /\ UNCHANGED <<device, mainVars, polls, prev_poll, updVars, tls_server,
                   tls_client>>

\* lines 315-316: finally: tls_client.close(); the descriptor is released
\* also when close reports an error
ClientClose == Ev("engine", "close", "", FALSE, 0, 0, "")
CloseClient ==
    /\ pc = "close"
    /\ tls_client' = "closed"
    /\ pc' = "terminate"
    /\ \/ Log(ClientClose, "ok") /\ error' = error
       \/ Log(ClientClose, "raise") /\ error' = "IOError"
    /\ UNCHANGED <<device, mainVars, polls, prev_poll, updVars, tls_server,
                   step>>

\* lines 317-318: finally: tls_server.terminate(); then line 358: return
Terminate ==
    /\ pc = "terminate"
    /\ Log(Ev("engine", "terminate", "", FALSE, 0, 0, ""), "ok")
    /\ tls_server' = "terminated"
    /\ pc' = "done"
    /\ UNCHANGED <<device, mainVars, polls, prev_poll, error, updVars,
                   tls_client, step>>

(* ---------------------------- specification ---------------------------- *)
Next ==
    \/ Prompt
    \/ Bind
    \/ Nop
    \/ Poll
    \/ CheckPsk
    \/ Classify
    \/ EraseMain
    \/ WritePsk
    \/ WritePskCheck
    \/ UpdOpen
    \/ UpdChunk
    \/ UpdVerify
    \/ UpdReset
    \/ UpdDisconnect
    \/ UpdRollback
    \/ StartServer
    \/ RunStep
    \/ FingerWait
    \/ CloseClient
    \/ Terminate

Spec == Init /\ [][Next]_vars

(* ------------------- the lifecycle loop, run for ever ------------------- *)
\* lines 336 and 371 when the loop of line 340 is not cut: a new Device object
\* is an object other than the one it replaces
BindLive ==
    /\ pc \in {"bind", "rebind"}
    /\ \/ /\ device' = (device % MaxDevices) + 1
          /\ pc' = IF pc = "bind" THEN "nop" ELSE "renop"
          /\ error' = error
       \/ /\ Raise("IOError")
          /\ device' = device
    /\ UNCHANGED <<mainVars, polls, prev_poll, calls, updVars, runVars>>

\* line 341 when the loop of line 340 is not cut: while True has no bound on
\* the number of polls
PollLive ==
    /\ pc = "poll"
    /\ polls' = IF polls < MaxPolls THEN polls + 1 ELSE polls
    /\ \/ \E f \in FirmwareStrings :
            /\ firmware' = f
            /\ prev_poll' = firmware
            /\ calls' = <<[Dev("firmware_version") EXCEPT !.res = "ok"]>>
            /\ pc' = "check"
            /\ error' = error
       \/ /\ calls' = <<[Dev("firmware_version") EXCEPT !.res = "raise"]>>
          /\ Raise("IOError")
          /\ UNCHANGED <<firmware, prev_poll>>
    /\ UNCHANGED <<device, previous_firmware, valid_psk, updVars, runVars>>

NextLive ==
    \/ Prompt
    \/ BindLive
    \/ Nop
    \/ PollLive
    \/ CheckPsk
    \/ Classify
    \/ EraseMain
    \/ WritePsk
    \/ WritePskCheck
    \/ UpdOpen
    \/ UpdChunk
    \/ UpdVerify
    \/ UpdReset
    \/ UpdDisconnect
    \/ UpdRollback
    \/ StartServer
    \/ RunStep
    \/ FingerWait
    \/ CloseClient
    \/ Terminate

\* one thread of control: the statement the program is at is executed, and
\* every call returns or raises
LiveSpec == Init /\ [][NextLive]_vars /\ WF_vars(NextLive)

TypeOK ==
    /\ pc \in {"prompt", "bind", "nop", "rebind", "renop", "poll", "check",
               "route", "erase", "write_psk", "write_psk_check", "upd_open",
               "upd_chunk", "upd_verify", "upd_reset", "upd_disconnect",
               "upd_rollback", "popen", "run", "wait", "close", "terminate",
               "done"}
    /\ polls \in 0..MaxPolls
    /\ attempt \in 0..UpdateTries
    /\ wtry \in 0..(WriteTries - 1)
    /\ tls_server \in {"none", "running", "terminated"}
    /\ tls_client \in {"none", "open", "closed"}

(* ------------------------ properties of the log ------------------------ *)
Idx == DOMAIN calls
Has(op) == \E i \in Idx : calls[i].op = op
\* the poll of this iteration returned a firmware string
PollOk ==
    /\ Len(calls) >= 1
    /\ calls[1].op = "firmware_version"
    /\ calls[1].res = "ok"
\* check_psk of line 344 returned in this iteration
KeyChecked == PollOk /\ Len(calls) >= 2 /\ calls[2].res \in {"ok", "mismatch"}
\* the latest two polls returned the same string
Stall == PollOk /\ firmware = prev_poll
ObsoleteValid(f) == MatchValid(f) /\ ~MatchTarget(f)
Unrecognized(f) == ~MatchTarget(f) /\ ~MatchValid(f) /\ ~MatchIap(f)
IsFileRead(e) == e.who = "file" /\ e.op = "read"
UpdateInvoked == \E i \in Idx : IsFileRead(calls[i])
UpdateReturned ==
    \E i \in Idx : calls[i].op = "disconnect" /\ calls[i].res = "ok"
Erases == {i \in Idx : calls[i].op = "mcu_erase_app"}
HasMainErase == \E i \in Idx : calls[i].op = "mcu_erase_app" /\ calls[i].arg = "main"
\* a call made by run_driver, setup_device, connect_device or get_image
SessionSigs == {<<RunSteps[i].op, RunSteps[i].arg>> : i \in DOMAIN RunSteps}
SessionCall(e) ==
    \/ e.op \in {"Popen", "close", "terminate"}
    \/ <<e.op, e.arg>> \in SessionSigs
InRunDriver == pc \in {"popen", "run", "wait", "close", "terminate"}
InUpdate ==
    pc \in {"upd_open", "upd_chunk", "upd_verify", "upd_reset",
            "upd_disconnect", "upd_rollback"}

(* ----------------------------- properties ------------------------------ *)
\* C1: run_driver is started, and every session call is issued, only in an
\* iteration whose poll returned the Target firmware and whose check_psk
\* returned true; the iteration then issues session calls only, and after
\* tls_server.terminate() nothing more is called and main has ended.
C1_SessionGated ==
    /\ (InRunDriver \/ \E i \in Idx : SessionCall(calls[i])) =>
         /\ KeyChecked
         /\ MatchTarget(firmware)
         /\ valid_psk
         /\ calls[2].res = "ok"
         /\ \A i \in Idx : i >= 3 => SessionCall(calls[i])
    /\ \A i \in Idx :
         calls[i].op = "terminate" => i = Len(calls) /\ pc = "done"
C1_Witness ==
    /\ pc = "done"
    /\ error = "none"
    /\ \E i \in Idx : calls[i].op = "write_pgm" /\ calls[i].arg = "fingerprint.pgm"

\* C2 (as stated): once two consecutive polls returned the same firmware
\* string, no device call follows the second poll.
C2_NoCallAfterStalledPoll == Stall => Len(calls) = 1
\* C2 (amended): once two consecutive polls returned the same firmware
\* string, the only call after the second poll is the key-commitment read of
\* check_psk; if that read succeeds the 'Unchanged firmware' error is raised,
\* otherwise the error of the read; no erase, key write, flash or session.
C2_StallGuard ==
    Stall =>
      /\ pc \in {"check", "route", "done"}
      /\ Len(calls) <= 2
      /\ \A i \in Idx : i >= 2 => calls[i].op = "preset_psk_read"
      /\ pc = "done" => error # "none"
      /\ (pc = "done" /\ KeyChecked) => error = "Unchanged firmware"
      /\ tls_server = "none"
C2_Witness ==
    Stall /\ pc = "done" /\ error = "Unchanged firmware" /\ Len(calls) = 2

\* C3 (as stated): in an iteration whose poll returned the IAP firmware and
\* whose check_psk returned true, update_firmware is invoked.
C3_IapValidAlwaysUpdates ==
    (KeyChecked /\ MatchIap(firmware) /\ valid_psk /\ pc # "route") =>
      (pc = "upd_open" \/ UpdateInvoked)
\* C3 (amended): in an iteration whose poll returned the IAP firmware, whose
\* check_psk returned true and whose firmware differs from the previous
\* poll's, update_firmware is invoked on the polled Device and, once it has
\* returned, a fresh Device is bound before the next poll; preset_psk_write
\* is never called in that iteration.
C3_IapValidUpdates ==
    (KeyChecked /\ MatchIap(firmware) /\ valid_psk /\ ~Stall /\ pc # "route") =>
      /\ pc = "upd_open" \/ UpdateInvoked
      /\ ~Has("preset_psk_write")
      /\ \A i \in Idx :
           calls[i].dev = calls[1].dev + (IF calls[i].op = "nop" THEN 1 ELSE 0)
      /\ pc \in {"rebind", "renop", "poll"} => UpdateReturned
      /\ UpdateReturned =>
           /\ pc \in {"rebind", "renop", "poll", "done"}
           /\ pc = "rebind" => device = calls[1].dev
           /\ pc \in {"renop", "poll"} => device = calls[1].dev + 1
           /\ pc = "done" => error = "IOError"
C3_Witness ==
    /\ KeyChecked /\ MatchIap(firmware) /\ valid_psk /\ ~Stall
    /\ UpdateReturned
    /\ pc = "poll"
    /\ device = calls[1].dev + 1

\* C4: in an iteration whose poll returned the IAP firmware and whose
\* check_psk returned false, update_firmware is entered only after
\* preset_psk_write and its readback both succeeded; when write_psk returns
\* false main ends with 'Failed to write PSK' and that call is the last one.
WritePskFalse ==
    /\ Len(calls) >= 3
    /\ calls[3].op = "preset_psk_write"
    /\ \/ calls[3].res = "false"
       \/ Len(calls) >= 4 /\ calls[4].res = "mismatch"
C4_ProvisionBeforeUpdate ==
    (KeyChecked /\ MatchIap(firmware) /\ ~valid_psk) =>
      /\ (InUpdate \/ UpdateInvoked) =>
           /\ Len(calls) >= 4
           /\ calls[3].op = "preset_psk_write" /\ calls[3].res = "ok"
           /\ calls[4].op = "preset_psk_read" /\ calls[4].res = "ok"
           /\ \A i \in Idx : IsFileRead(calls[i]) => i > 4
      /\ WritePskFalse =>
           /\ pc = "done"
           /\ error = "Failed to write PSK"
           /\ Len(calls) <= 4
           /\ ~UpdateInvoked /\ Erases = {}
           /\ device = calls[1].dev
C4_Witness ==
    /\ KeyChecked /\ MatchIap(firmware) /\ ~valid_psk
    /\ Has("preset_psk_write")
    /\ Has("check_firmware")

\* C5: in an iteration whose poll returned a string matching none of the three
\* patterns, the only call after the poll is the key-commitment read, main
\* ends with an error, and no erase, key write, flash, rebind or session
\* happens.
C5_UnrecognizedIsFatal ==
    (PollOk /\ Unrecognized(firmware)) =>
      /\ pc \in {"check", "route", "done"}
      /\ Len(calls) <= 2
      /\ \A i \in Idx : i >= 2 => calls[i].op = "preset_psk_read"
      /\ pc = "done" => error # "none"
      /\ device = calls[1].dev
      /\ tls_server = "none"
C5_Witness ==
    /\ PollOk /\ Unrecognized(firmware)
    /\ pc = "done" /\ error = "Invalid firmware"

\* C6 (as stated): when an iteration whose check_psk returned is over, the
\* controller has issued erase_firmware in it exactly when the polled firmware
\* is ObsoleteValid, or is Target with an invalid key.
ErasableCase ==
    ObsoleteValid(firmware) \/ (MatchTarget(firmware) /\ ~valid_psk)
C6_EraseExactlyWhen ==
    (KeyChecked /\ pc \in {"poll", "done"}) => (HasMainErase <=> ErasableCase)
\* C6 (amended): when an iteration whose check_psk returned and whose
\* firmware differs from the previous poll's is over, the controller has
\* issued erase_firmware in it exactly when the polled firmware is
\* ObsoleteValid, or is Target with an invalid key; the erase is then the only
\* call after the key check and the next poll uses the same Device; a Target
\* string with a valid key is never erased.
C6_EraseRouting ==
    /\ (KeyChecked /\ ~Stall /\ pc \in {"poll", "done"}) =>
         (HasMainErase <=> ErasableCase)
    /\ HasMainErase =>
         /\ KeyChecked /\ ~Stall /\ ErasableCase
         /\ Len(calls) = 3
         /\ calls[3].op = "mcu_erase_app"
         /\ pc \in {"poll", "done"}
         /\ pc = "done" => calls[3].res = "raise"
         /\ device = calls[1].dev
         /\ tls_server = "none"
C6_Witness ==
    /\ HasMainErase /\ pc = "poll"
    /\ MatchTarget(firmware) /\ ~valid_psk

\* C7: when update_firmware fails the rollback erase is issued exactly once,
\* as the last call, right after the failing call; no erase is issued while
\* the update runs or after it returned.
UpdateFailed == UpdateInvoked /\ pc = "done" /\ ~UpdateReturned
C7_RollbackOnce ==
    /\ UpdateFailed =>
         /\ error # "none"
         /\ Cardinality(Erases) = 1
         /\ calls[Len(calls)].op = "mcu_erase_app"
         /\ calls[Len(calls)].arg = "rollback"
         /\ calls[Len(calls) - 1].res \in {"false", "raise"}
    /\ (UpdateInvoked /\ pc # "done") => Erases = {}
    /\ UpdateReturned => Erases = {}
    /\ pc = "upd_rollback" =>
         error # "none" /\ calls[Len(calls)].res \in {"false", "raise"}
C7_Witness ==
    /\ UpdateFailed
    /\ \E i \in Idx : calls[i].op = "check_firmware" /\ calls[i].res = "ok"
    /\ \E i \in Idx : calls[i].op = "disconnect" /\ calls[i].res = "raise"
    /\ Cardinality(Erases) = 1

\* the calls of the latest outer attempt: those after the latest file read
LastRead ==
    CHOOSE i \in Idx :
      IsFileRead(calls[i]) /\ \A j \in (i + 1)..Len(calls) : ~IsFileRead(calls[j])
IsWrite(e) == e.op = "write_firmware"
IsOkWrite(e) == e.op = "write_firmware" /\ e.res = "ok"
AttemptCalls(r) == SubSeq(calls, r + 1, Len(calls))
Ceil(L) == (L + 255) \div 256
FinalLen(L) == IF L % 256 = 0 THEN 256 ELSE L % 256
\* w is the sequence of the chunks of an image of length L, or a prefix of it
ChunksOf(w, L) ==
    /\ Len(w) <= Ceil(L)
    /\ \A k \in 1..Len(w) :
         /\ w[k].x = (k - 1) * 256
         /\ w[k].y = IF k < Ceil(L) THEN 256 ELSE FinalLen(L)
\* the chunk loop of the attempt that started at the read calls[r] is over
Transferred(r) ==
    \/ pc = "upd_verify"
    \/ \E i \in (r + 1)..Len(calls) : calls[i].op = "check_firmware"

\* C8 (as stated): when the chunk loop of an attempt is over, the attempt has
\* issued ceil(L/256) chunk writes at offsets 0, 256, 512, ... of length 256,
\* the final one of length L mod 256 (or 256).
C8_WritesAreTheChunks ==
    UpdateInvoked =>
      LET r == LastRead
          L == calls[r].y
          w == SelectSeq(AttemptCalls(r), IsWrite)
      IN  (calls[r].res = "ok" /\ Transferred(r)) =>
            ChunksOf(w, L) /\ Len(w) = Ceil(L)
\* C8 (amended): in each attempt the chunk writes the device accepted are the
\* chunks at offsets 0, 256, 512, ... of length 256, the final one of length
\* L mod 256 (or 256), and there are ceil(L/256) of them when the chunk loop
\* is over; a write the device reported as failed is repeated at the same
\* offset and length, at most WriteTries writes per offset.
C8_AcceptedWritesAreTheChunks ==
    UpdateInvoked =>
      LET r == LastRead
          L == calls[r].y
          w == SelectSeq(AttemptCalls(r), IsWrite)
          ok == SelectSeq(w, IsOkWrite)
      IN  calls[r].res = "ok" =>
            /\ ChunksOf(ok, L)
            /\ Transferred(r) => Len(ok) = Ceil(L)
            /\ \A k \in 1..Len(w) :
                 /\ (w[k].res = "false" /\ k < Len(w)) =>
                      w[k + 1].x = w[k].x /\ w[k + 1].y = w[k].y
                 /\ (w[k].res = "ok" /\ k < Len(w)) =>
                      w[k + 1].x = w[k].x + 256
                 /\ (k > 1 /\ w[k].res = "false" /\ w[k - 1].res = "false") =>
                      k = Len(w) /\ pc \in {"upd_rollback", "done"}
                 /\ Cardinality({j \in 1..Len(w) : w[j].x = w[k].x}) <= 2
C8_Witness ==
    /\ UpdateInvoked
    /\ LET r == LastRead
           w == SelectSeq(AttemptCalls(r), IsWrite)
       IN  /\ calls[r].res = "ok"
           /\ Transferred(r)
           /\ calls[r].y = 257
           /\ Len(w) = 3
           /\ Len(SelectSeq(w, IsOkWrite)) = 2

\* C9: when run_driver has ended, the session-engine process is terminated and
\* the loopback socket object, if one was created, is closed.
C9_ResourcesReleased ==
    pc = "done" =>
      /\ tls_server \in {"none", "terminated"}
      /\ tls_client \in {"none", "closed"}

\* C10: every protocol.write and check_message_pack of connect_device uses the
\* handshake tag, every mcu_get_image uses the application-data tag, the
\* handshake tag is used only before the settle delay of connect_device and
\* the application-data tag only after it.
HandshakeDone(i) == \E j \in Idx : j < i /\ calls[j].op = "sleep"
C10_FramingTags ==
    \A i \in Idx :
      /\ calls[i].op \in {"protocol.write", "check_message_pack"} =>
           calls[i].tag = FLAGS_TLS
      /\ calls[i].op = "mcu_get_image" => calls[i].tag = FLAGS_TLS_DATA
      /\ calls[i].tag = FLAGS_TLS => ~HandshakeDone(i)
      /\ calls[i].tag = FLAGS_TLS_DATA => HandshakeDone(i)
C10_Witness ==
    /\ Cardinality({i \in Idx : calls[i].tag = FLAGS_TLS}) = 5
    /\ Cardinality({i \in Idx : calls[i].tag = FLAGS_TLS_DATA}) = 5

\* C11: write_psk issues one preset_psk_write; when the device reports failure
\* no readback follows and main ends with 'Failed to write PSK'; when it
\* reports success exactly one preset_psk_read follows, and update_firmware is
\* entered exactly when that readback equals PMK_HASH; a readback that signals
\* failure or echoes other flags raises the error of check_psk.
PskWrites == {i \in Idx : calls[i].op = "preset_psk_write"}
C11_WriteOnceThenReadback ==
    /\ Cardinality(PskWrites) <= 1
    /\ pc = "write_psk_check" =>
         calls[Len(calls)].op = "preset_psk_write" /\ calls[Len(calls)].res = "ok"
    /\ \A i \in PskWrites :
         /\ calls[i].res \in {"false", "raise"} =>
              /\ i = Len(calls)
              /\ pc = "done"
              /\ calls[i].res = "false" => error = "Failed to write PSK"
         /\ (calls[i].res = "ok" /\ i = Len(calls)) => pc = "write_psk_check"
         /\ (calls[i].res = "ok" /\ i < Len(calls)) =>
              /\ calls[i + 1].op = "preset_psk_read"
              /\ \A j \in (i + 2)..Len(calls) : calls[j].op # "preset_psk_read"
              /\ calls[i + 1].res = "ok" <=> (InUpdate \/ UpdateInvoked)
              /\ calls[i + 1].res # "ok" => pc = "done" /\ i + 1 = Len(calls)
              /\ calls[i + 1].res = "mismatch" => error = "Failed to write PSK"
              /\ calls[i + 1].res = "false" =>
                   error \in {"Failed to read PSK", "Invalid flags"}
C11_Witness ==
    /\ pc = "done"
    /\ error = "Invalid flags"
    /\ \E i \in PskWrites : calls[i].res = "ok" /\ i + 1 = Len(calls)

\* C12: a chunk is written again only right after the device reported its
\* write as failed, and never a third time; after the second failure the
\* error 'Failed to write firmware' is in flight, the only later call is the
\* rollback erase, and no later chunk, no check_firmware and no new attempt
\* follows.
SameChunk(i, j) ==
    /\ calls[i].op = "write_firmware"
    /\ calls[j].op = "write_firmware"
    /\ calls[i].x = calls[j].x
SecondFailure(i) ==
    /\ i >= 2
    /\ SameChunk(i - 1, i)
    /\ calls[i - 1].res = "false"
    /\ calls[i].res = "false"
C12_ChunkRetry ==
    \A i \in Idx :
      calls[i].op = "write_firmware" =>
        /\ (i >= 2 /\ SameChunk(i - 1, i)) => calls[i - 1].res = "false"
        /\ (i >= 3 /\ SameChunk(i - 1, i)) => ~SameChunk(i - 2, i)
        /\ (calls[i].res = "false" /\ ~SecondFailure(i) /\ i < Len(calls)) =>
             SameChunk(i, i + 1)
        /\ (calls[i].res = "false" /\ ~SecondFailure(i) /\ i = Len(calls)) =>
             pc = "upd_chunk" /\ wtry = 1
        /\ SecondFailure(i) =>
             /\ pc \in {"upd_rollback", "done"}
             /\ pc = "upd_rollback" =>
                  i = Len(calls) /\ error = "Failed to write firmware"
             /\ pc = "done" =>
                  /\ i + 1 = Len(calls)
                  /\ calls[i + 1].op = "mcu_erase_app"
                  /\ calls[i + 1].res = "ok" => error = "Failed to write firmware"
C12_Witness ==
    /\ pc = "done"
    /\ error = "Failed to write firmware"
    /\ Len(calls) >= 3
    /\ SecondFailure(Len(calls) - 1)
    /\ calls[Len(calls) - 1].x = 0
    /\ calls[Len(calls) - 3].y = 257
    /\ \A j \in Idx : calls[j].op # "check_firmware"

\* C13: one update_firmware invocation reads the image at most twice and
\* verifies at most twice; the second read comes directly after a failed
\* verification; a successful verification is followed by one reset and one
\* disconnect and by no further read, chunk write or verification; the second
\* failed verification puts 'Failed to check firmware' in flight.
Reads == {i \in Idx : IsFileRead(calls[i])}
Checks == {i \in Idx : calls[i].op = "check_firmware"}
UpdateWork(j) == IsFileRead(calls[j]) \/ calls[j].op \in {"write_firmware", "check_firmware"}
C13_OuterRetry ==
    LET rd == Reads
        ck == Checks
    IN  /\ Cardinality(rd) <= UpdateTries
        /\ Cardinality(ck) <= UpdateTries
        /\ \A i \in rd :
             (\E r \in rd : r < i) =>
               calls[i - 1].op = "check_firmware" /\ calls[i - 1].res = "false"
        /\ \A i \in ck :
             /\ (calls[i].res = "ok" /\ i = Len(calls)) => pc = "upd_reset"
             /\ calls[i].res = "ok" =>
                  /\ \A j \in (i + 1)..Len(calls) : ~UpdateWork(j)
                  /\ Cardinality({j \in (i + 1)..Len(calls) : calls[j].op = "reset"}) <= 1
                  /\ Cardinality({j \in (i + 1)..Len(calls) : calls[j].op = "disconnect"}) <= 1
                  /\ i < Len(calls) => calls[i + 1].op = "reset" /\ calls[i + 1].arg = "update"
                  /\ (i + 1 < Len(calls) /\ calls[i + 1].res = "ok") =>
                       calls[i + 2].op = "disconnect"
                  /\ pc \in {"rebind", "renop", "poll"} =>
                       /\ i + 2 <= Len(calls)
                       /\ calls[i + 1].res = "ok"
                       /\ calls[i + 2].res = "ok"
             /\ (calls[i].res = "false" /\ \A c \in ck : c >= i) =>
                  /\ i = Len(calls) => pc = "upd_open" /\ attempt = 1
                  /\ i < Len(calls) => IsFileRead(calls[i + 1])
             /\ (calls[i].res = "false" /\ \E c \in ck : c < i) =>
                  /\ pc \in {"upd_rollback", "done"}
                  /\ pc = "upd_rollback" =>
                       i = Len(calls) /\ error = "Failed to check firmware"
                  /\ pc = "done" =>
                       /\ i + 1 = Len(calls)
                       /\ calls[i + 1].op = "mcu_erase_app"
                       /\ calls[i + 1].res = "ok" => error = "Failed to check firmware"
C13_Witness ==
    /\ pc = "done"
    /\ error = "Failed to check firmware"
    /\ Cardinality(Reads) = 2
    /\ Cardinality(Checks) = 2
    /\ \A i \in Checks : calls[i].res = "false"

\* C14: after the engine connection is made the calls are, in this order, the
\* handshake initiation forwarded to the engine, one engine receive forwarded
\* to the device, three device reads each unwrapped and forwarded to the
\* engine, one engine receive forwarded to the device, and the settle delay;
\* a call that does not return is followed only by the release of the engine
\* resources, and a capture call comes only after the delay has returned.
Initiate == << <<"device", "request_tls_connection">>, <<"engine", "sendall">> >>
ToDevice == << <<"engine", "recv">>, <<"device", "protocol.write">> >>
Unwrapped ==
    << <<"device", "protocol.read">>, <<"codec", "check_message_pack">>,
       <<"engine", "sendall">> >>
HandshakeOrder ==
    Initiate \o ToDevice \o Unwrapped \o Unwrapped \o Unwrapped \o ToDevice \o
    << <<"host", "sleep">> >>
RelayOps ==
    {"request_tls_connection", "recv", "protocol.write", "protocol.read",
     "check_message_pack", "sleep"}
Release(e) == e.who = "engine" /\ e.op \in {"close", "terminate"}
Connected == {i \in Idx : calls[i].op = "connect" /\ calls[i].res = "ok"}
C14_RelayOrder ==
    LET cs == Connected
        n == Len(HandshakeOrder)
    IN  /\ Cardinality(cs) <= 1
        /\ \A i \in Idx :
             calls[i].op \in RelayOps => \E c \in cs : c < i /\ i <= c + n
        /\ \A c \in cs :
             \A k \in 1..(Len(calls) - c) :
               /\ (k <= n /\ ~Release(calls[c + k])) =>
                    <<calls[c + k].who, calls[c + k].op>> = HandshakeOrder[k]
               /\ (k <= n /\ calls[c + k].res # "ok") =>
                    \A j \in (c + k + 1)..Len(calls) : Release(calls[j])
               /\ (k <= n /\ Release(calls[c + k])) =>
                    \E j \in 1..(k - 1) :
                      ~Release(calls[c + j]) /\ calls[c + j].res # "ok"
               /\ (k > n /\ ~Release(calls[c + k])) =>
                    \A j \in 1..n : calls[c + j].res = "ok"
C14_Witness ==
    \E c \in Connected :
      /\ Len(calls) > c + Len(HandshakeOrder)
      /\ calls[c + Len(HandshakeOrder)].op = "sleep"
      /\ calls[c + Len(HandshakeOrder)].res = "ok"
      /\ calls[c + Len(HandshakeOrder) + 1].op = "upload_config_mcu"

\* the calibration frames, by pass
PassNo(name) ==
    CASE name = "clear-0.pgm" -> 0
      [] name = "clear-1.pgm" -> 1
      [] name = "clear-2.pgm" -> 2
      [] name = "clear-3.pgm" -> 3
      [] OTHER -> 4
Emissions == {i \in Idx : calls[i].op = "write_pgm" /\ PassNo(calls[i].arg) < 4}
Trigger(e, v) ==
    /\ e.who = "device" /\ e.op = "write_sensor_register"
    /\ e.x = 556 /\ e.arg = v /\ e.res = "ok"
\* trigger on, frame request, 7684-byte read less the trailer, emission at i
PassBody(i) ==
    /\ i >= 6
    /\ Trigger(calls[i - 5], "0a03")
    /\ calls[i - 4].op = "mcu_get_image" /\ calls[i - 4].tag = FLAGS_TLS_DATA
    /\ calls[i - 3].who = "engine" /\ calls[i - 3].op = "sendall"
    /\ calls[i - 2].op = "stdout.read"
    /\ calls[i - 2].x = 7684 /\ calls[i - 2].y = 4
    /\ calls[i - 1].op = "decode_image"
    /\ \A j \in (i - 4)..(i - 1) : calls[j].res = "ok"
\* the two mode switches come right before the pass that emits at i
ModeSwitched(i) ==
    /\ i >= 8
    /\ calls[i - 7].op = "mcu_switch_to_fdt_mode" /\ ~calls[i - 7].flag
    /\ calls[i - 6].op = "mcu_switch_to_fdt_mode" /\ calls[i - 6].flag

\* C15 as stated: every calibration pass is made of the two mode switches,
\* the trigger-register write, the frame request, the 7684-byte read and the
\* emission
C15_EachPassSwitchesMode ==
    \A i \in Emissions : PassBody(i) /\ ModeSwitched(i)

\* C15: the calibration frames are emitted in the order clear-0 .. clear-3,
\* each at most once; each pass is trigger on, frame request, 7684-byte read
\* less 4 trailer bytes, emission; the two mode switches precede the first and
\* the fourth pass only; the trigger register is written off after each pass
\* and on again at the start of the next one.
C15_CalibrationPasses ==
    LET em == Emissions
    IN  /\ Cardinality(em) <= 4
        /\ \A i \in em :
             LET k == PassNo(calls[i].arg)
                 gap == IF k = 3 THEN 2 ELSE 0
             IN  /\ Cardinality({j \in em : j < i}) = k
                 /\ PassBody(i)
                 /\ ModeSwitched(i) <=> k \in {0, 3}
                 /\ k >= 1 =>
                      /\ Trigger(calls[i - 6 - gap], "0a02")
                      /\ (i - 7 - gap) \in em
                 /\ (i < Len(calls) /\ calls[i].res = "ok" /\ ~Release(calls[i + 1])) =>
                      calls[i + 1].op = "write_sensor_register"
                      /\ calls[i + 1].arg = "0a02"
        /\ \A i \in Idx :
             calls[i].op \in {"set_pov_config", "mcu_switch_to_fdt_down"} =>
               Cardinality({j \in em : j < i}) = 4
C15_Witness ==
    /\ Cardinality(Emissions) = 4
    /\ \E i \in Emissions : calls[i].arg = "clear-1.pgm" /\ ~ModeSwitched(i)
    /\ Has("set_pov_config")

\* the blocking finger-presence request, and the calls of the final
\* acquisition
FingerReq == {i \in Idx : calls[i].op = "mcu_switch_to_fdt_down" /\ calls[i].flag}
FinalCall(e) ==
    \/ e.op = "mcu_switch_to_fdt_mode" /\ e.arg \in {"0d8d-00", "0d8d-01"}
    \/ e.op = "write_sensor_register" /\ e.arg = "0503"
    \/ e.op = "mcu_get_image" /\ e.arg = "4503a700a100a700a300"
    \/ e.op = "write_pgm" /\ e.arg = "fingerprint.pgm"
\* sleep, the two state queries and the non-blocking request right before b
Armed(b) ==
    /\ b >= 5
    /\ calls[b - 4].op = "mcu_switch_to_sleep_mode"
    /\ calls[b - 3].op = "query_mcu_state" /\ calls[b - 3].arg = "000000"
    /\ calls[b - 2].op = "query_mcu_state" /\ calls[b - 2].arg = "010101"
    /\ calls[b - 1].op = "mcu_switch_to_fdt_down" /\ ~calls[b - 1].flag
    /\ \A j \in (b - 4)..(b - 1) : calls[j].res = "ok"

\* C16: the finger-presence request is made once, after the four calibration
\* frames and the arming calls; while it is pending it is the last call and no
\* call of the final acquisition has been made; every call of the final
\* acquisition comes after the request has returned, and the 'fingerprint'
\* frame is requested and emitted at most once, by a pass of its own.
C16_FinalAcquisition ==
    LET fr == FingerReq
        em == Emissions
    IN  /\ Cardinality(fr) <= 1
        /\ \A b \in fr :
             /\ Armed(b)
             /\ Cardinality({j \in em : j < b /\ calls[j].res = "ok"}) = 4
             /\ calls[b].res = "pending" <=> pc = "wait"
             /\ calls[b].res = "pending" => b = Len(calls)
             /\ calls[b].res = "raise" =>
                  \A j \in (b + 1)..Len(calls) : Release(calls[j])
        /\ pc = "wait" => fr # {}
        /\ \A i \in Idx :
             /\ calls[i].res = "pending" => i \in fr
             /\ FinalCall(calls[i]) =>
                  /\ \E b \in fr : b < i /\ calls[b].res = "ok"
                  /\ \A j \in Idx :
                       (j # i /\ calls[j].op = calls[i].op) =>
                         calls[j].arg # calls[i].arg
             /\ (calls[i].op = "write_pgm" /\ calls[i].arg = "fingerprint.pgm") =>
                  /\ calls[i - 7].op = "mcu_switch_to_fdt_mode" /\ ~calls[i - 7].flag
                  /\ calls[i - 6].op = "mcu_switch_to_fdt_mode" /\ calls[i - 6].flag
                  /\ (i - 8) \in fr
                  /\ Trigger(calls[i - 5], "0503")
                  /\ calls[i - 4].op = "mcu_get_image" /\ calls[i - 4].tag = FLAGS_TLS_DATA
                  /\ calls[i - 3].who = "engine" /\ calls[i - 3].op = "sendall"
                  /\ calls[i - 2].op = "stdout.read"
                  /\ calls[i - 2].x = 7684 /\ calls[i - 2].y = 4
                  /\ calls[i - 1].op = "decode_image"
                  /\ \A j \in (i + 1)..Len(calls) : Release(calls[j])
C16_Witness ==
    /\ pc = "done"
    /\ error = "none"
    /\ \E i \in Idx :
         /\ calls[i].op = "write_pgm" /\ calls[i].arg = "fingerprint.pgm"
         /\ calls[i].res = "ok"
    /\ \E b \in FingerReq : calls[b].res = "ok"

\* C17: the lifecycle loop of main eventually reaches the session bootstrap or
\* ends (a fatal error, or the prompt refused).
C17_LifecycleTerminates == <>(pc = "done" \/ InRunDriver)

\* C18: once update_firmware has caught an error, the one step the program
\* still takes is the rollback erase on the same DeviceSession: it adds that
\* one call to the calls made so far, ends main with an error, and leaves the
\* session object, the poll count and the engine untouched; after it nothing
\* changes any more.
C18_UpdateFailureIsFinal ==
    [][ /\ pc = "upd_rollback" =>
             /\ pc' = "done"
             /\ error' # "none"
             /\ device' = device
             /\ polls' = polls
             /\ <<previous_firmware, firmware, valid_psk>>' =
                  <<previous_firmware, firmware, valid_psk>>
             /\ runVars' = <<"none", "none", 0>>
             /\ Len(calls') = Len(calls) + 1
             /\ SubSeq(calls', 1, Len(calls)) = calls
             /\ calls'[Len(calls')].op = "mcu_erase_app"
             /\ calls'[Len(calls')].dev = calls[1].dev
        /\ (pc = "done" /\ UpdateInvoked /\ ~UpdateReturned) => vars' = vars
      ]_vars
C18_Witness ==
    /\ UpdateFailed
    /\ error = "Failed to write firmware"
    /\ polls < MaxPolls
    /\ device = calls[1].dev
    /\ tls_server = "none"
    /\ calls[Len(calls)].op = "mcu_erase_app"

\* C19: the DeviceSession changes only where main constructs one: at the start
\* and right after update_firmware returned, whose last two calls were the
\* reset and the disconnect of the old session; the new session is one never
\* used before, and every call made from then on carries it; the main erase
\* keeps the session; when the session is replaced the update engine and the
\* session bootstrap hold no state, and the route of an iteration is computed
\* from the string and the key check obtained from the current session.
UpdIdle == updVars = <<0, NoImage, "", 0, 0>>
C19_SessionReplacement ==
    [][ /\ device' # device =>
             /\ pc \in {"bind", "rebind"}
             /\ device' > device
             /\ \A i \in Idx : calls[i].dev <= device
        /\ pc = "rebind" =>
             /\ device' # device \/ pc' = "done"
             /\ Len(calls) >= 2
             /\ calls[Len(calls)].op = "disconnect"
             /\ calls[Len(calls)].res = "ok"
             /\ calls[Len(calls) - 1].op = "reset"
             /\ calls[Len(calls) - 1].res = "ok"
             /\ \A i \in Idx : calls[i].dev = device
             /\ UpdIdle /\ runVars = <<"none", "none", 0>>
        /\ calls' # calls => calls'[Len(calls')].dev = device'
        /\ pc = "erase" => device' = device
        /\ pc = "route" =>
             /\ calls[1].op = "firmware_version" /\ calls[1].dev = device
             /\ calls[2].op = "preset_psk_read" /\ calls[2].dev = device
             /\ valid_psk = (calls[2].res = "ok")
             /\ UpdIdle /\ runVars = <<"none", "none", 0>>
      ]_vars
C19_Witness ==
    /\ pc = "route"
    /\ polls = 2
    /\ device = 2
    /\ calls[1].dev = 2
    /\ calls[2].dev = 2
    /\ MatchIap(previous_firmware)

\* the image read at the start of the attempt that the call at index c is in
ReadBefore(c) ==
    CHOOSE r \in Reads : r < c /\ \A q \in Reads : q < c => q <= r
ImageOf(r) == [id |-> calls[r].arg, len |-> calls[r].y]

\* C20: the tag of every check_firmware is the keyed hash of the image read at
\* the start of its attempt; between that read and the verification the calls
\* are the writes of the chunks of that image, the accepted ones covering it
\* once from offset 0 to its end; two verifications carry the same tag exactly
\* when their attempts read the same image.
C20_TagOfAttemptImage ==
    LET ck == Checks
    IN  /\ \A c \in ck :
             LET r == ReadBefore(c)
                 img == ImageOf(r)
                 ws == (r + 1)..(c - 1)
             IN  /\ calls[r].res = "ok"
                 /\ calls[c].arg = Hmac(PmkHmac, img.id \o ":" \o ToString(img.len))
                 /\ \A j \in ws :
                      /\ calls[j].op = "write_firmware"
                      /\ calls[j].arg = img.id
                      /\ calls[j].y = Min(256, img.len - calls[j].x)
                 /\ {calls[j].x : j \in {k \in ws : calls[k].res = "ok"}} =
                      {256 * k : k \in 0..(Ceil(img.len) - 1)}
                 /\ \A j1, j2 \in ws :
                      (j1 < j2 /\ calls[j1].res = "ok") => calls[j1].x < calls[j2].x
        /\ \A c1, c2 \in ck :
             (ImageOf(ReadBefore(c1)) = ImageOf(ReadBefore(c2)))
               <=> (calls[c1].arg = calls[c2].arg)
        /\ pc \in {"upd_chunk", "upd_verify"} =>
             /\ image = ImageOf(LastRead)
             /\ firmware_hmac = FirmwareHmac(image)
C20_Witness ==
    \E c1, c2 \in Checks :
      /\ c1 < c2
      /\ calls[c1].arg # calls[c2].arg
      /\ ImageOf(ReadBefore(c2)).len > 256
      /\ ImageOf(ReadBefore(c1)).len = ImageOf(ReadBefore(c2)).len

====
